---- MODULE Spec2Model ----
(***************************************************************************)
(* A model of app.py, the personalised news aggregator: the article        *)
(* sanitizer, the two provider adapters, the feed merger, and the          *)
(* register / login / logout / article / admin / home request handlers     *)
(* over the user store, the activity log and the browser session.          *)
(***************************************************************************)
EXTENDS Integers, Sequences, FiniteSets, TLC

VARIABLES
    API_KEY,    \* app.py:10, the configured provider key (None when unset)
    users,      \* the User table, in insertion order
    activity,   \* the Activity table, in insertion order
    session,    \* the flask session of the browser
    reg,        \* per client, a POST /register between its SELECT and its COMMIT
    last,       \* the last request handled and the response it got
    homeOut,    \* what the last home() did: adapter calls, their results, the feed
    arg,        \* the input of the helper function under check
    ret,        \* the value the helper returned
    pc          \* "start" before the helper ran, "done" after

vars == <<API_KEY, users, activity, session, reg, last, homeOut, arg, ret, pc>>

(***************************************************************************)
(* Bounds of the model.                                                    *)
(***************************************************************************)
MaxItems == 3       \* longest article list given to the sanitizer
MaxListLen == 1     \* longest list given to the merger
MaxLimit == 3       \* largest limit given to the merger
MaxActivity == 1    \* most rows of the Activity table
MaxShuffleLen == 4  \* longest list of which every order is explored

(***************************************************************************)
(* Python values.                                                          *)
(***************************************************************************)
\* Python's None, also what dict.get returns for a missing key.
None == "<None>"

\* Truthiness of a str-or-None value: `not v` is true for None and "".
Truthy(v) == v # None /\ v # ""

Range(s) == {s[i] : i \in 1..Len(s)}

Min(a, b) == IF a <= b THEN a ELSE b

RECURSIVE SeqsUpTo(_, _)
\* All sequences over S of length at most n.
SeqsUpTo(S, n) ==
    IF n = 0 THEN {<<>>}
    ELSE LET shorter == SeqsUpTo(S, n - 1)
         IN shorter \cup {Append(s, x) : s \in {t \in shorter : Len(t) = n - 1}, x \in S}

(***************************************************************************)
(* Strings.  A form field is a sequence of one-character strings, so that  *)
(* str.strip, str.lower and str.split are computed and not assumed.        *)
(***************************************************************************)
Whitespace == {" ", "\t", "\n"}

UpperCase == <<"A", "B", "C", "D", "E", "F", "G", "H", "I", "J", "K", "L", "M",
               "N", "O", "P", "Q", "R", "S", "T", "U", "V", "W", "X", "Y", "Z">>

LowerCase == <<"a", "b", "c", "d", "e", "f", "g", "h", "i", "j", "k", "l", "m",
               "n", "o", "p", "q", "r", "s", "t", "u", "v", "w", "x", "y", "z">>

LowerChar(c) ==
    IF \E i \in 1..Len(UpperCase) : UpperCase[i] = c
    THEN LowerCase[CHOOSE i \in 1..Len(UpperCase) : UpperCase[i] = c]
    ELSE c

\* str.lower()
Lower(s) == [i \in 1..Len(s) |-> LowerChar(s[i])]

RECURSIVE LStrip(_)
LStrip(s) == IF s # <<>> /\ Head(s) \in Whitespace THEN LStrip(Tail(s)) ELSE s

RECURSIVE RStrip(_)
RStrip(s) ==
    IF s # <<>> /\ s[Len(s)] \in Whitespace THEN RStrip(SubSeq(s, 1, Len(s) - 1)) ELSE s

\* str.strip()
Strip(s) == RStrip(LStrip(s))

RECURSIVE SplitFrom(_, _, _, _)
\* str.split(sep) from character i on; cur is the piece being read.
SplitFrom(s, sep, i, cur) ==
    IF i > Len(s) THEN <<cur>>
    ELSE IF s[i] = sep THEN <<cur>> \o SplitFrom(s, sep, i + 1, <<>>)
    ELSE SplitFrom(s, sep, i + 1, Append(cur, s[i]))

Split(s, sep) == SplitFrom(s, sep, 1, <<>>)

\* hashlib.sha256(pw.encode()).hexdigest(), app.py:40-41, on the passwords used.
hash_password(pw) ==
    CASE pw = "p" -> "148de9c5a7a44d19e56cd9ae1a554bf67847afb0c58f6e12fa29ac7ddfca9940"
      [] pw = "q" -> "8e35c2cd3bf6641bdb0e2050b76932cbb2e6034a0ddacc1d9bea82a6ba57f7cf"
      [] pw = "P" -> "5c62e091b8c0565f1bafad0dad5934276143ae2ccef7a5381e8ada5b1a8d26d2"

(***************************************************************************)
(* Articles and the values a provider can put in the "articles" field.     *)
(* An item is a dict (isdict) with the url and title dict.get returns, or  *)
(* something that is no dict (a number, a character of a string, ...).     *)
(* Unhashable stands for a url that is a JSON array or object.             *)
(***************************************************************************)
Unhashable == "<list>"

Article(url, title) == [isdict |-> TRUE, url |-> url, title |-> title]

NonRecord == [isdict |-> FALSE, url |-> None, title |-> None]

\* A JSON value as Python sees it: t is its type, n its value when a number,
\* items what iterating it yields (the characters of a string and the keys of
\* a dict are no dicts).
PyNone == [t |-> "null", n |-> 0, items |-> <<>>]
PyList(items) == [t |-> "list", n |-> 0, items |-> items]
PyNum(n) == [t |-> "num", n |-> n, items |-> <<>>]
PyStr(chars) == [t |-> "str", n |-> 0, items |-> chars]
PyDict(keys) == [t |-> "dict", n |-> 0, items |-> keys]

\* `not v` for a JSON value.
Falsy(v) ==
    \/ v.t = "null"
    \/ v.t = "num" /\ v.n = 0
    \/ v.t \in {"str", "list", "dict"} /\ v.items = <<>>

(***************************************************************************)
(* _safe_articles, app.py:43-55.  The loop is followed statement by        *)
(* statement; raised records an exception leaving the function.            *)
(***************************************************************************)
RECURSIVE SafeLoop(_, _, _, _)
SafeLoop(items, i, cleaned, seen) ==
    IF i > Len(items) THEN [raised |-> FALSE, value |-> cleaned]
    ELSE LET a == items[i] IN
         IF ~a.isdict THEN [raised |-> TRUE, value |-> <<>>]       \* a.get: AttributeError
         ELSE IF ~Truthy(a.url) \/ ~Truthy(a.title)
              THEN SafeLoop(items, i + 1, cleaned, seen)            \* continue
         ELSE IF a.url = Unhashable
              THEN [raised |-> TRUE, value |-> <<>>]                \* url in seen: TypeError
         ELSE IF a.url \in seen
              THEN SafeLoop(items, i + 1, cleaned, seen)            \* continue
         ELSE SafeLoop(items, i + 1, Append(cleaned, a), seen \cup {a.url})

\* the mutant: a duplicate URL replaces nothing and is appended again.
SafeArticlesNoDedup(items) ==
    IF Falsy(items) THEN [raised |-> FALSE, value |-> <<>>]
    ELSE IF items.t = "num" THEN [raised |-> TRUE, value |-> <<>>]
    ELSE [raised |-> FALSE,
          value |-> SelectSeq(items.items, LAMBDA a : Truthy(a.url) /\ Truthy(a.title))]

_safe_articles(items) ==
    IF Falsy(items) THEN SafeLoop(<<>>, 1, <<>>, {})               \* items or []
    ELSE IF items.t = "num" THEN [raised |-> TRUE, value |-> <<>>]  \* not iterable
    ELSE SafeLoop(items.items, 1, <<>>, {})

(***************************************************************************)
(* merge_shuffle_limit, app.py:83-88.  random.shuffle can leave the list   *)
(* in any order, so the function's possible results are a set.             *)
(***************************************************************************)
RECURSIVE Extend(_, _)
\* merged after `for lst in list_of_lists: merged.extend(lst)` from list i on.
Extend(list_of_lists, i) ==
    IF i > Len(list_of_lists) THEN <<>>
    ELSE list_of_lists[i] \o Extend(list_of_lists, i + 1)

\* The orders random.shuffle can leave s in: every order of a list of up to
\* MaxShuffleLen elements; of a longer list, its rotations by up to
\* MaxShuffleLen places.
Shuffle(s) ==
    LET n == Len(s) IN
    IF n <= MaxShuffleLen
    THEN {[i \in 1..n |-> s[p[i]]] : p \in Permutations(1..n)}
    ELSE {[i \in 1..n |-> s[((i + k) % n) + 1]] : k \in 0..MaxShuffleLen}

\* Python's s[:limit]; a negative limit counts from the end.
SliceTo(s, limit) ==
    IF limit >= 0 THEN SubSeq(s, 1, Min(limit, Len(s)))
    ELSE SubSeq(s, 1, IF Len(s) + limit > 0 THEN Len(s) + limit ELSE 0)

\* the mutant: the shuffled list is returned whole.
MergeNoLimit(list_of_lists, limit) == Shuffle(Extend(list_of_lists, 1))

merge_shuffle_limit(list_of_lists, limit) ==
    {SliceTo(merged, limit) : merged \in Shuffle(Extend(list_of_lists, 1))}

(***************************************************************************)
(* The provider's answer to one outbound call, as requests.get and         *)
(* r.json() deliver it: the call raises (transport error, timeout), the    *)
(* body is no JSON, the JSON is no object, or it is an object with an      *)
(* optional status and an optional articles value.                         *)
(***************************************************************************)
Response(kind, isobj, status, has_articles, articles) ==
    [kind |-> kind, isobj |-> isobj, status |-> status,
     has_articles |-> has_articles, articles |-> articles]

\* data.get("articles", []).
ArticlesField(data) == IF data.has_articles THEN data.articles ELSE PyList(<<>>)

Raise == [raised |-> TRUE, value |-> <<>>]

Return(value) == [raised |-> FALSE, value |-> value]

\* the mutant: the response's list is returned as it came.
TryBodyVerbatim(response) ==
    IF response.kind \in {"transport_error", "timeout"} THEN Raise
    ELSE IF response.kind = "not_json" THEN Raise
    ELSE IF ~response.isobj THEN Raise
    ELSE IF response.status = "ok" THEN Return(ArticlesField(response).items)
    ELSE Return(<<>>)

\* The body of the try block, app.py:62-65 and 75-78; falling out of it
\* reaches the `return []` of line 68 / 81.
TryBody(response) ==
    IF response.kind \in {"transport_error", "timeout"} THEN Raise   \* requests.get
    ELSE IF response.kind = "not_json" THEN Raise                    \* r.json()
    ELSE IF ~response.isobj THEN Raise                               \* data.get
    ELSE IF response.status = "ok" THEN _safe_articles(ArticlesField(response))
    ELSE Return(<<>>)

\* the mutant: the exception is not caught.
ExceptNothing(r) == r

\* `except Exception as e: print(...)`, then `return []`.
ExceptException(r) == IF r.raised THEN Return(<<>>) ELSE r

\* What both adapters do once their params are built.
Fetch(response) ==
    IF ~Truthy(API_KEY) THEN [raised |-> FALSE, value |-> <<>>, outbound |-> FALSE]
    ELSE LET r == ExceptException(TryBody(response))
         IN [raised |-> r.raised, value |-> r.value, outbound |-> TRUE]

\* app.py:57-68; the provider's response to the call is an input.
fetch_top_headlines(country, page_size, page, response) == Fetch(response)

\* app.py:70-81.
fetch_news_for_topic(topic, page_size, page, response) == Fetch(response)

(***************************************************************************)
(* The state the application starts in (db.create_all on an empty          *)
(* news.db, no request handled yet), and the idle values of the variables  *)
(* a specification does not use.                                           *)
(***************************************************************************)
NoSession == [has_user_id |-> FALSE, user_id |-> 0, has_email |-> FALSE, email |-> <<>>]

Clients == {"c1", "c2"}

IdleReg == [pc |-> "idle", name |-> <<>>, email |-> <<>>, password |-> "", interests |-> <<>>]

NoRequest ==
    [route |-> "", method |-> "", email |-> <<>>, password |-> "", title |-> "",
     status |-> "", performed |-> FALSE]

NoHome == [calls |-> <<>>, results |-> <<>>, feed |-> <<>>, personalized |-> FALSE]

NoRet == [fn |-> "", raised |-> FALSE, value |-> <<>>, outbound |-> FALSE]

AppStart ==
    /\ users = <<>>
    /\ activity = <<>>
    /\ session = NoSession
    /\ reg = [c \in Clients |-> IdleReg]
    /\ last = NoRequest
    /\ homeOut = NoHome

AppVars == <<users, activity, session, reg, last, homeOut>>

(***************************************************************************)
(* The request handlers.  A request is answered in one step, except        *)
(* POST /register, whose SELECT (app.py:127) and COMMIT (app.py:131) are   *)
(* two statements of the database that other requests can come between.    *)
(***************************************************************************)
\* app.py:12, the configured administrator address.
ADMIN_EMAIL == <<"a", "@", "x">>

DuplicateMessage == "Email already registered. Try logging in."

InvalidCredentials == "Invalid credentials"

Request(route, method, email, password, title, status, performed) ==
    [route |-> route, method |-> method, email |-> email, password |-> password,
     title |-> title, status |-> status, performed |-> performed]

\* The row .first() returns of the rows a query selects, 0 when there is none.
First(rows) == IF rows = {} THEN 0 ELSE CHOOSE i \in rows : \A j \in rows : i <= j

\* User.query.filter_by(email=email)
UsersByEmail(email) == {i \in 1..Len(users) : users[i].email = email}

\* the mutant: the password is not part of the filter.
LoginQueryEmailOnly(email, password_hash) == UsersByEmail(email)

\* User.query.filter_by(email=email, password_hash=password)
LoginQuery(email, password_hash) ==
    {i \in 1..Len(users) :
        users[i].email = email /\ users[i].password_hash = password_hash}

\* db.session.get(User, id): the row of that primary key, 0 when there is none.
GetUser(id) == First({i \in 1..Len(users) : users[i].id = id})

\* ---- register, app.py:119-133 ----
RegisterGet ==
    /\ last' = Request("register", "GET", <<>>, "", "", "render", FALSE)
    /\ UNCHANGED <<API_KEY, users, activity, session, reg, homeOut, arg, ret, pc>>

\* Lines 122-128: the form is read and the email looked up.
RegisterCheck(c, forms) ==
    /\ reg[c].pc = "idle"
    /\ \E form \in forms :
           LET name == Strip(form.name)
               email == Lower(Strip(form.email))
               password == hash_password(form.password)
               interests == Strip(form.interests)
           IN IF First(UsersByEmail(email)) # 0
              THEN /\ last' = Request("register", "POST", form.email, form.password, "",
                                      DuplicateMessage, FALSE)
                   /\ UNCHANGED reg
              ELSE /\ reg' = [reg EXCEPT ![c] =
                               [pc |-> "adding", name |-> name, email |-> email,
                                password |-> password, interests |-> interests]]
                   /\ UNCHANGED last
    /\ UNCHANGED <<API_KEY, users, activity, session, homeOut, arg, ret, pc>>

\* Lines 129-132: the row is inserted and committed.  email is UNIQUE
\* (app.py:29): the INSERT of an email the table holds raises IntegrityError,
\* which nothing catches, and the request ends in a 500.
RegisterCommit(c) ==
    /\ reg[c].pc = "adding"
    /\ IF UsersByEmail(reg[c].email) # {}
       THEN /\ last' = Request("register", "POST", reg[c].email, "", "", "500", FALSE)
            /\ UNCHANGED users
       ELSE /\ users' = Append(users,
                               [id |-> Len(users) + 1, name |-> reg[c].name,
                                email |-> reg[c].email, password_hash |-> reg[c].password,
                                interests |-> reg[c].interests])
            /\ last' = Request("register", "POST", reg[c].email, "", "", "redirect_login", TRUE)
    /\ reg' = [reg EXCEPT ![c] = IdleReg]
    /\ UNCHANGED <<API_KEY, activity, session, homeOut, arg, ret, pc>>

\* ---- login, app.py:135-146 ----
LoginGet ==
    /\ last' = Request("login", "GET", <<>>, "", "", "render", FALSE)
    /\ UNCHANGED <<API_KEY, users, activity, session, reg, homeOut, arg, ret, pc>>

\* the mutant: line 143 is missing.
LoginSessionNoEmail(user) ==
    [has_user_id |-> TRUE, user_id |-> user.id, has_email |-> FALSE, email |-> <<>>]

\* Lines 142-143.
LoginSession(user) ==
    [has_user_id |-> TRUE, user_id |-> user.id, has_email |-> TRUE, email |-> user.email]

Login(forms) ==
    /\ \E form \in forms :
           LET email == Lower(Strip(form.email))
               password == hash_password(form.password)
               user == First(LoginQuery(email, password))
           IN IF user # 0
              THEN /\ session' = LoginSession(users[user])
                   /\ last' = Request("login", "POST", form.email, form.password, "",
                                      "redirect_home", TRUE)
              ELSE /\ last' = Request("login", "POST", form.email, form.password, "",
                                      InvalidCredentials, FALSE)
                   /\ UNCHANGED session
    /\ UNCHANGED <<API_KEY, users, activity, reg, homeOut, arg, ret, pc>>

\* ---- logout, app.py:148-152 ----
\* the mutant: only user_id is popped.
SessionPopUserId(s) ==
    [has_user_id |-> FALSE, user_id |-> 0, has_email |-> s.has_email, email |-> s.email]

\* session.pop("user_id", None); session.pop("email", None)
SessionPopBoth(s) ==
    [has_user_id |-> FALSE, user_id |-> 0, has_email |-> FALSE, email |-> <<>>]

Logout ==
    /\ session' = SessionPopBoth(session)
    /\ last' = Request("logout", "GET", <<>>, "", "", "redirect_home", TRUE)
    /\ UNCHANGED <<API_KEY, users, activity, reg, homeOut, arg, ret, pc>>

\* ---- article, app.py:154-160 ----
ArticleView(titles) ==
    /\ \E title \in titles :
           IF ~session.has_user_id
           THEN /\ last' = Request("article", "GET", <<>>, "", title, "redirect_login", FALSE)
                /\ UNCHANGED activity
           ELSE /\ Len(activity) < MaxActivity
                /\ activity' = Append(activity,
                                      [user_id |-> session.user_id, article_title |-> title])
                /\ last' = Request("article", "GET", <<>>, "", title, "200", TRUE)
    /\ UNCHANGED <<API_KEY, users, session, reg, homeOut, arg, ret, pc>>

\* ---- admin routes, app.py:163-178 ----
\* the mutant: any logged-in session passes.
AdminAnyUser(s) == s.has_user_id

\* admin_required: TRUE when it returns, FALSE when it aborts with 403.
\* session.get("email") is None without the key, and None is no string.
admin_required(s) == s.has_email /\ s.email = ADMIN_EMAIL

AdminRoute(route) ==
    /\ IF admin_required(session)
       THEN last' = Request(route, "GET", <<>>, "", "", "200", TRUE)
       ELSE last' = Request(route, "GET", <<>>, "", "", "403", FALSE)
    /\ UNCHANGED <<API_KEY, users, activity, session, reg, homeOut, arg, ret, pc>>

show_users == AdminRoute("admin_users")

user_count == AdminRoute("admin_usercount")

\* ---- home, app.py:91-117 ----
Technology == <<"t", "e", "c", "h", "n", "o", "l", "o", "g", "y">>
Science == <<"s", "c", "i", "e", "n", "c", "e">>
Sports == <<"s", "p", "o", "r", "t", "s">>

\* Line 102: [t.strip() for t in user.interests.split(",") if t.strip()]
Topics(interests) ==
    LET parts == Split(interests, ",")
        stripped == [i \in 1..Len(parts) |-> Strip(parts[i])]
    IN SelectSeq(stripped, LAMBDA t : t # <<>>)

\* the mutant: every topic is searched.
UsedTopicsNoCap(interests) ==
    LET topics == Topics(interests)
    IN IF topics = <<>> THEN <<Technology, Science, Sports>> ELSE topics

\* Lines 102-105.
UsedTopics(interests) ==
    LET topics == Topics(interests)
        or_default == IF topics = <<>> THEN <<Technology, Science, Sports>> ELSE topics
    IN SubSeq(or_default, 1, Min(5, Len(or_default)))

\* random.randint(1, 3)
Pages == 1..3

Call(fn, q, page_size) == [fn |-> fn, q |-> q, page_size |-> page_size]

\* The provider's answer to each call is an input of the step.  The page of a
\* topic search (one random.randint(1, 3) per topic, line 108) goes into the
\* request only and nothing of the result depends on it, so the step does not
\* branch on it.
home(resps) ==
    LET user == IF session.has_user_id THEN GetUser(session.user_id) ELSE 0 IN
    /\ IF user # 0 /\ users[user].interests # <<>>
       THEN LET used_topics == UsedTopics(users[user].interests)
                n == Len(used_topics)
                page == CHOOSE p \in Pages : TRUE
            IN \E responses \in [1..n -> resps] :
                   LET fetched == [i \in 1..n |->
                                     fetch_news_for_topic(used_topics[i], 10, page, responses[i])]
                       topic_feeds == [i \in 1..n |-> fetched[i].value]
                   IN IF \E i \in 1..n : fetched[i].raised
                      THEN /\ homeOut' = NoHome
                           /\ last' = Request("home", "GET", <<>>, "", "", "500", FALSE)
                      ELSE \E articles \in merge_shuffle_limit(topic_feeds, 18) :
                               /\ homeOut' =
                                      [calls |-> [i \in 1..n |->
                                                    Call("fetch_news_for_topic", used_topics[i], 10)],
                                       results |-> topic_feeds,
                                       feed |-> articles,
                                       personalized |-> TRUE]
                               /\ last' = Request("home", "GET", <<>>, "", "", "200", TRUE)
       ELSE \E response \in resps, page \in Pages :
                LET fetched == fetch_top_headlines("us", 12, page, response)
                IN IF fetched.raised
                   THEN /\ homeOut' = NoHome
                        /\ last' = Request("home", "GET", <<>>, "", "", "500", FALSE)
                   ELSE /\ homeOut' =
                               [calls |-> <<Call("fetch_top_headlines", <<"u", "s">>, 12)>>,
                                results |-> <<fetched.value>>,
                                feed |-> fetched.value,
                                personalized |-> FALSE]
                        /\ last' = Request("home", "GET", <<>>, "", "", "200", TRUE)
    /\ UNCHANGED <<API_KEY, users, activity, session, reg, arg, ret, pc>>

(***************************************************************************)
(* SpecSanitize: _safe_articles applied to every list of up to MaxItems    *)
(* records, and to a missing list.                                         *)
(***************************************************************************)
FieldValues == {None, "", "1", "2"}

Records == {Article(u, t) : u \in FieldValues, t \in FieldValues}

SanitizerInputs == {PyNone} \cup {PyList(s) : s \in SeqsUpTo(Records, MaxItems)}

InitSanitize ==
    /\ AppStart
    /\ API_KEY = None
    /\ arg \in SanitizerInputs
    /\ ret = NoRet
    /\ pc = "start"

Sanitize ==
    /\ pc = "start"
    /\ LET r == _safe_articles(arg)
       IN ret' = [fn |-> "_safe_articles", raised |-> r.raised, value |-> r.value,
                  outbound |-> FALSE]
    /\ pc' = "done"
    /\ UNCHANGED <<API_KEY, arg, AppVars>>

NextSanitize == Sanitize

SpecSanitize == InitSanitize /\ [][NextSanitize]_vars

(***************************************************************************)
(* SpecMerge: merge_shuffle_limit applied to up to three lists of up to    *)
(* MaxListLen articles, with limits from -1 to MaxLimit.                   *)
(***************************************************************************)
MergeArticles == {Article("1", "1"), Article("2", "2")}

MergeLists == SeqsUpTo(MergeArticles, MaxListLen)

MergeInputs ==
    {<<>>} \cup {<<a>> : a \in MergeLists}
           \cup {<<a, b>> : a \in MergeLists, b \in MergeLists}
           \cup {<<a, b, c>> : a \in MergeLists, b \in MergeLists, c \in MergeLists}

InitMerge ==
    /\ AppStart
    /\ API_KEY = None
    /\ arg \in {[lists |-> l, limit |-> n] : l \in MergeInputs, n \in (-1)..MaxLimit}
    /\ ret = NoRet
    /\ pc = "start"

Merge ==
    /\ pc = "start"
    /\ \E out \in merge_shuffle_limit(arg.lists, arg.limit) :
           ret' = [fn |-> "merge_shuffle_limit", raised |-> FALSE, value |-> out,
                   outbound |-> FALSE]
    /\ pc' = "done"
    /\ UNCHANGED <<API_KEY, arg, AppVars>>

NextMerge == Merge

SpecMerge == InitMerge /\ [][NextMerge]_vars

(***************************************************************************)
(* SpecFetch: each adapter called once, under every API key setting,       *)
(* against every answer of the provider with up to MaxItems items.         *)
(***************************************************************************)
FetchItems ==
    {Article("1", "1"), Article("1", "2"), Article("2", "1"), Article("", "1"),
     Article("1", None), Article(Unhashable, "1"), Article(Unhashable, ""), NonRecord}

ArticlesValues ==
    {PyNone, PyNum(0), PyNum(5), PyStr(<<>>), PyStr(<<NonRecord, NonRecord>>),
     PyDict(<<>>), PyDict(<<NonRecord>>)}
        \cup {PyList(s) : s \in SeqsUpTo(FetchItems, MaxItems)}

ProviderResponses ==
    {Response(k, FALSE, None, FALSE, PyNone) : k \in {"transport_error", "timeout", "not_json", "json"}}
        \cup {Response("json", TRUE, st, FALSE, PyNone) : st \in {None, "ok", "error"}}
        \cup {Response("json", TRUE, st, TRUE, a) : st \in {None, "ok", "error"}, a \in ArticlesValues}

ApiKeys == {None, "", "k"}

InitFetch ==
    /\ AppStart
    /\ API_KEY \in ApiKeys
    /\ arg \in ProviderResponses
    /\ ret = NoRet
    /\ pc = "start"

FetchTopHeadlines ==
    /\ pc = "start"
    /\ \E page \in Pages :
           LET r == fetch_top_headlines("us", 12, page, arg)
           IN ret' = [fn |-> "fetch_top_headlines", raised |-> r.raised, value |-> r.value,
                      outbound |-> r.outbound]
    /\ pc' = "done"
    /\ UNCHANGED <<API_KEY, arg, AppVars>>

FetchNewsForTopic ==
    /\ pc = "start"
    /\ \E topic \in {"technology", "sports"}, page \in Pages :
           LET r == fetch_news_for_topic(topic, 10, page, arg)
           IN ret' = [fn |-> "fetch_news_for_topic", raised |-> r.raised, value |-> r.value,
                      outbound |-> r.outbound]
    /\ pc' = "done"
    /\ UNCHANGED <<API_KEY, arg, AppVars>>

NextFetch == FetchTopHeadlines \/ FetchNewsForTopic

SpecFetch == InitFetch /\ [][NextFetch]_vars

(***************************************************************************)
(* Spec: the application's requests in any order, two clients registering  *)
(* at once, over three submitted emails (two after normalisation) and two  *)
(* passwords.  The provider answers home()'s calls with one article.       *)
(***************************************************************************)
RawEmails == {<<"a", "@", "x">>, <<" ", "A", "@", "X", " ">>, <<"b", "@", "x">>}

Passwords == {"p", "q"}

Form(name, email, password, interests) ==
    [name |-> name, email |-> email, password |-> password, interests |-> interests]

AuthForms == {Form(<<"n">>, e, p, <<"t">>) : e \in RawEmails, p \in Passwords}

Titles == {"T"}

OkResponse(items) == Response("json", TRUE, "ok", TRUE, PyList(items))

TransportError == Response("transport_error", FALSE, None, FALSE, PyNone)

AuthResponses == {OkResponse(<<Article("1", "1")>>)}

Init ==
    /\ AppStart
    /\ API_KEY = "k"
    /\ arg = PyNone
    /\ ret = NoRet
    /\ pc = "serving"

Next ==
    \/ RegisterGet
    \/ \E c \in Clients : RegisterCheck(c, AuthForms)
    \/ \E c \in Clients : RegisterCommit(c)
    \/ LoginGet
    \/ Login(AuthForms)
    \/ Logout
    \/ ArticleView(Titles)
    \/ show_users
    \/ user_count
    \/ home(AuthResponses)

Spec == Init /\ [][Next]_vars

(***************************************************************************)
(* SpecHome: users registered with every shape of interests string, logging *)
(* in and out and asking for the home page, with or without an API key,    *)
(* against a provider that fails or answers with seven records.             *)
(***************************************************************************)
HomeInterests ==
    {<<>>,                                                      \* ""
     <<" ">>,                                                   \* " "
     <<",">>,                                                   \* ","
     <<" ", ",", " ", ",">>,                                    \* " , ,"
     <<"t">>,                                                   \* "t"
     <<" ", "t", ",", ",", " ", "s", " ">>,                     \* " t,, s "
     <<"a", ",", "b", ",", "c", ",", "d", ",", "e", ",", "f">>} \* "a,b,c,d,e,f"

HomeForms == {Form(<<"n">>, <<"b", "@", "x">>, "p", i) : i \in HomeInterests}

\* A page of seven records: six with URLs of their own and one repeating a URL.
PageOfSeven ==
    <<Article("1", "1"), Article("2", "2"), Article("3", "3"), Article("1", "0"),
      Article("4", "4"), Article("5", "5"), Article("6", "6")>>

HomeResponses == {TransportError, OkResponse(PageOfSeven)}

InitHome ==
    /\ AppStart
    /\ API_KEY \in {None, "k"}
    /\ arg = PyNone
    /\ ret = NoRet
    /\ pc = "serving"

NextHome ==
    \/ RegisterCheck("c1", HomeForms)
    \/ RegisterCommit("c1")
    \/ Login(HomeForms)
    \/ Logout
    \/ home(HomeResponses)

SpecHome == InitHome /\ [][NextHome]_vars

(***************************************************************************)
(* Claims about the sanitizer.                                             *)
(***************************************************************************)
\* The list the sanitizer was given, as a sequence (a missing list is empty).
SanIn == IF Falsy(arg) THEN <<>> ELSE arg.items

Valid(a) == Truthy(a.url) /\ Truthy(a.title)

NoDupUrl(s) == \A i, j \in 1..Len(s) : s[i].url = s[j].url => i = j

RECURSIVE IsSubseqFrom(_, _, _, _)
\* s from i on is a subsequence of t from j on.
IsSubseqFrom(s, i, t, j) ==
    IF i > Len(s) THEN TRUE
    ELSE IF j > Len(t) THEN FALSE
    ELSE IF s[i] = t[j] THEN IsSubseqFrom(s, i + 1, t, j + 1)
    ELSE IsSubseqFrom(s, i, t, j + 1)

\* The first record of each URL that has a title is in out.
FirstWins(in, out) ==
    \A i \in 1..Len(in) :
        (Valid(in[i]) /\ \A j \in 1..(i - 1) : Valid(in[j]) => in[j].url # in[i].url)
            => \E k \in 1..Len(out) : out[k] = in[i]

\* C1: for every input list, also an empty or missing one and one with records
\* whose url or title is missing or empty, the sanitizer returns (without
\* raising) a list with no two records of the same URL and no record with a
\* missing or empty URL or title, that is a subsequence of the input, and
\* that holds, for each URL the input has with a title, the first such record.
C1_Sanitizer ==
    pc = "done" =>
        /\ ~ret.raised
        /\ NoDupUrl(ret.value)
        /\ \A k \in 1..Len(ret.value) : Valid(ret.value[k])
        /\ IsSubseqFrom(ret.value, 1, SanIn, 1)
        /\ FirstWins(SanIn, ret.value)

\* A URL seen three times, first without a title, then with two different
\* titles: the second record alone is kept.
C1_Witness ==
    /\ pc = "done"
    /\ arg = PyList(<<Article("1", ""), Article("1", "1"), Article("1", "2")>>)
    /\ ret.value = <<Article("1", "1")>>

(***************************************************************************)
(* Claims about the merger.                                                *)
(***************************************************************************)
MergeTotal == Cardinality({<<i, j>> \in (1..Len(arg.lists)) \X (1..MaxListLen) : j <= Len(arg.lists[i])})

CountInLists(x) ==
    Cardinality({<<i, j>> \in (1..Len(arg.lists)) \X (1..MaxListLen) :
                    j <= Len(arg.lists[i]) /\ arg.lists[i][j] = x})

CountIn(x, s) == Cardinality({i \in 1..Len(s) : s[i] = x})

\* C2: for every list of lists and every limit >= 0 the merged feed is no
\* longer than the limit and no longer than the inputs together, holds no
\* article more often than the inputs do, and is a permutation of all the
\* inputs when they fit the limit.
C2_Merger ==
    (pc = "done" /\ arg.limit >= 0) =>
        /\ Len(ret.value) <= arg.limit
        /\ Len(ret.value) <= MergeTotal
        /\ \A x \in Range(ret.value) : CountIn(x, ret.value) <= CountInLists(x)
        /\ MergeTotal <= arg.limit =>
               \A x \in MergeArticles : CountIn(x, ret.value) = CountInLists(x)

\* Three articles under limit 2: two are kept, in an order the inputs did not have.
C2_Witness ==
    /\ pc = "done"
    /\ arg = [lists |-> <<<<Article("1", "1")>>, <<Article("2", "2")>>, <<Article("1", "1")>>>>,
              limit |-> 2]
    /\ ret.value = <<Article("2", "2"), Article("1", "1")>>

(***************************************************************************)
(* Claims about the adapters.                                              *)
(***************************************************************************)
\* The articles value is a list whose items are all records.
ListOfRecords(v) == v.t = "list" /\ \A i \in 1..Len(v.items) : v.items[i].isdict

\* The url and title of every record are strings or missing.
PlainFields(v) == \A i \in 1..Len(v.items) : v.items[i].url # Unhashable

KeyConfigured == API_KEY # None /\ API_KEY # ""

\* The call failed, or the answer is malformed or reports no success.
FetchFailure ==
    \/ arg.kind \in {"transport_error", "timeout", "not_json"}
    \/ ~arg.isobj
    \/ arg.status # "ok"
    \/ arg.has_articles /\ ~ListOfRecords(arg.articles)

\* C6: both adapters return an empty sequence and never raise when the call
\* fails (transport error, timeout), the response is malformed (no JSON, no
\* object, articles no list of records), the status is not "ok", or no API key
\* is configured, and in that last case no outbound call is made.
C6_AdapterFailure ==
    pc = "done" =>
        /\ ~ret.raised
        /\ (FetchFailure \/ ~KeyConfigured) => ret.value = <<>>
        /\ ~KeyConfigured => ~ret.outbound

\* A key is set and the provider answers "ok" with a list holding a non-record
\* after a good record: the adapter made the call and returned nothing.
C6_Witness ==
    /\ pc = "done"
    /\ API_KEY = "k"
    /\ arg = Response("json", TRUE, "ok", TRUE, PyList(<<Article("1", "1"), NonRecord>>))
    /\ ret = [fn |-> "fetch_news_for_topic", raised |-> FALSE, value |-> <<>>, outbound |-> TRUE]

\* The answer is a success carrying a list of records with plain fields.
FetchSuccess ==
    /\ KeyConfigured
    /\ arg.kind = "json" /\ arg.isobj /\ arg.status = "ok"
    /\ arg.has_articles /\ ListOfRecords(arg.articles) /\ PlainFields(arg.articles)

\* C7 as stated: on a successful response the adapter returns exactly the
\* sequence of records of the articles field.
C7_AdapterVerbatim ==
    (pc = "done" /\ FetchSuccess) => ret.value = arg.articles.items

RECURSIVE FirstValidFrom(_, _)
\* The records of in from i on that have a url and a title and whose url no
\* earlier such record has.
FirstValidFrom(in, i) ==
    IF i > Len(in) THEN <<>>
    ELSE IF Valid(in[i]) /\ \A j \in 1..(i - 1) : Valid(in[j]) => in[j].url # in[i].url
         THEN <<in[i]>> \o FirstValidFrom(in, i + 1)
    ELSE FirstValidFrom(in, i + 1)

\* C7 as amended: on a successful response the adapter returns the sanitized
\* list: the records of the articles field that have a url and a title, the
\* first one of each URL only, in the response's order.
C7_AdapterSanitized ==
    (pc = "done" /\ FetchSuccess) =>
        /\ ~ret.raised
        /\ ret.outbound
        /\ ret.value = FirstValidFrom(arg.articles.items, 1)

\* A success whose list repeats a URL and has a record without a url: top
\* headlines returns the first record alone.
C7_Witness ==
    /\ pc = "done"
    /\ FetchSuccess
    /\ arg.articles.items = <<Article("1", "2"), Article("", "1"), Article("1", "1")>>
    /\ ret.fn = "fetch_top_headlines"
    /\ ret.value = <<Article("1", "2")>>

(***************************************************************************)
(* Claims about the session and the user store (Spec).                     *)
(***************************************************************************)
Authenticated == session.has_user_id

Normalized(email) == Lower(Strip(email))

\* A stored user has the submitted email, normalised, and the hash of the
\* submitted password.
CredentialsMatch(email, password) ==
    \E i \in 1..Len(users) :
        /\ users[i].email = Normalized(email)
        /\ users[i].password_hash = hash_password(password)

LoginSubmitted == last.route = "login" /\ last.method = "POST"

\* The outcome of the last login submission.
LoginOutcome ==
    LoginSubmitted =>
        IF CredentialsMatch(last.email, last.password)
        THEN /\ last.status = "redirect_home"
             /\ session.has_user_id /\ session.has_email
             /\ \E i \in 1..Len(users) :
                    /\ users[i].email = Normalized(last.email)
                    /\ session.user_id = users[i].id
                    /\ session.email = users[i].email
        ELSE last.status = InvalidCredentials

\* A rejected login leaves the session as it was.
LoginFailureKeepsSession ==
    (last'.route = "login" /\ last'.status = InvalidCredentials) => session' = session

\* C3: a login submission succeeds iff a stored user has the normalised
\* submitted email and the hash of the submitted password; on success the
\* session is Authenticated with that user's id and email; on failure the
\* caller gets the invalid-credentials rejection and the session is unchanged.
C3_Login == [](LoginOutcome) /\ [][LoginFailureKeepsSession]_vars

\* Logged in as a@x, a login with " A@X " and a password that is not the
\* stored one is rejected, and the session is still that of a@x.
C3_Witness ==
    /\ LoginSubmitted
    /\ last.status = InvalidCredentials
    /\ last.email = <<" ", "A", "@", "X", " ">>
    /\ \E i \in 1..Len(users) : users[i].email = <<"a", "@", "x">>
    /\ session.has_user_id /\ session.email = <<"a", "@", "x">>

UniqueEmails == \A i, j \in 1..Len(users) : users[i].email = users[j].email => i = j

\* C4: a registration creates a user iff no stored user has the normalised
\* email, and is otherwise answered with the duplicate-identity message, also
\* when two registrations of one email interleave: no two stored users share
\* an email, and every registration that created no user got that message.
C4_Register ==
    /\ UniqueEmails
    /\ (last.route = "register" /\ last.method = "POST" /\ ~last.performed)
           => last.status = DuplicateMessage

AdminRequested == last.route \in {"admin_users", "admin_usercount"}

\* C5: the admin gate passes iff the session's email is the configured
\* administrator email; every other session, the anonymous one too, gets 403
\* and the guarded query is not made.
C5_AdminGate ==
    AdminRequested =>
        IF session.has_email /\ session.email = ADMIN_EMAIL
        THEN last.status = "200" /\ last.performed
        ELSE last.status = "403" /\ ~last.performed

\* The administrator is registered, yet the session of the logged-in b@x is
\* refused.
C5_Witness ==
    /\ AdminRequested
    /\ last.status = "403"
    /\ \E i \in 1..Len(users) : users[i].email = ADMIN_EMAIL
    /\ session.has_user_id /\ session.email = <<"b", "@", "x">>

\* What a logout request leaves behind.
LogoutClears ==
    last'.route = "logout" =>
        /\ ~session'.has_user_id /\ ~session'.has_email
        /\ session' = NoSession
        /\ last'.status = "redirect_home"
        /\ users' = users
        /\ activity' = activity

\* C8: a logout from any session state leaves a session with neither user id
\* nor email, does not fail, and changes neither the users nor the activity log.
C8_Logout == [][LogoutClears]_vars

\* A logout after a user registered, logged in and viewed an article.
C8_Witness ==
    /\ last.route = "logout"
    /\ session = NoSession
    /\ Len(users) >= 1
    /\ Len(activity) >= 1

SessionConsistent ==
    /\ session.has_user_id <=> session.has_email
    /\ session.has_user_id =>
           \E i \in 1..Len(users) :
               users[i].id = session.user_id /\ users[i].email = session.email

OnlyLoginAndLogoutChangeSession ==
    session' # session =>
        \/ last'.route = "login" /\ last'.status = "redirect_home"
        \/ last'.route = "logout"

\* C10: the session holds a user id iff it holds an email, both of one stored
\* user, and only a successful login or a logout changes the session.
C10_Session == [](SessionConsistent) /\ [][OnlyLoginAndLogoutChangeSession]_vars

\* The second registered user is logged in and has viewed an article.
C10_Witness ==
    /\ last.route = "article" /\ last.status = "200"
    /\ session.has_user_id /\ session.user_id = 2
    /\ Len(users) = 2 /\ session.email = users[2].email

(***************************************************************************)
(* Claims about the home page (SpecHome).                                  *)
(***************************************************************************)
HomeServed == last.route = "home"

\* The user the session resolves to, 0 when there is none.
HomeUser == IF session.has_user_id THEN GetUser(session.user_id) ELSE 0

HomeInterestsOf == IF HomeUser = 0 THEN <<>> ELSE users[HomeUser].interests

FirstFive(s) == [i \in 1..Min(5, Len(s)) |-> s[i]]

RECURSIVE TotalLen(_)
TotalLen(lists) == IF lists = <<>> THEN 0 ELSE Len(Head(lists)) + TotalLen(Tail(lists))

RECURSIVE CountInAll(_, _)
CountInAll(x, lists) ==
    IF lists = <<>> THEN 0 ELSE CountIn(x, Head(lists)) + CountInAll(x, Tail(lists))

\* One topic search per topic of searched, in order, and the feed is what the
\* searches returned, shuffled and cut to 18.
TopicFeed(searched) ==
    /\ homeOut.calls = [i \in 1..Len(searched) |-> Call("fetch_news_for_topic", searched[i], 10)]
    /\ Len(homeOut.results) = Len(searched)
    /\ Len(homeOut.feed) = Min(18, TotalLen(homeOut.results))
    /\ \A x \in Range(homeOut.feed) :
           CountIn(x, homeOut.feed) <= CountInAll(x, homeOut.results)

\* One top-headlines query, no topic search, and its result is the feed.
HeadlinesFeed ==
    /\ homeOut.calls = <<Call("fetch_top_headlines", <<"u", "s">>, 12)>>
    /\ Len(homeOut.results) = 1
    /\ homeOut.feed = homeOut.results[1]

\* C9 as stated: a user with topics gets one search per topic, the first five,
\* and the merge of their results cut to 18; everyone else (anonymous, or
\* interests without any topic, such as only commas) gets one top-headlines
\* query and no topic search.
C9_HomeAsStated ==
    HomeServed =>
        /\ last.status = "200"
        /\ IF Topics(HomeInterestsOf) # <<>>
           THEN TopicFeed(FirstFive(Topics(HomeInterestsOf)))
           ELSE HeadlinesFeed

\* C9 as amended: a non-empty interests string without any topic makes home
\* search the three default topics; only an anonymous session or an empty
\* interests string gets the top-headlines query.
C9_Home ==
    HomeServed =>
        /\ last.status = "200"
        /\ IF Topics(HomeInterestsOf) # <<>>
           THEN TopicFeed(FirstFive(Topics(HomeInterestsOf)))
           ELSE IF HomeInterestsOf # <<>>
           THEN TopicFeed(<<Technology, Science, Sports>>)
           ELSE HeadlinesFeed

\* The user with six topics: five searches, all answered, thirty articles
\* of which eighteen are shown.
C9_Witness ==
    /\ HomeServed
    /\ Len(Topics(HomeInterestsOf)) = 6
    /\ Len(homeOut.calls) = 5
    /\ TotalLen(homeOut.results) = 30
    /\ Len(homeOut.feed) = 18

====
